---- MODULE Spec2Model ----
(***************************************************************************)
(* EarthquakeService (src/app/services/earthquake.service.ts): the fetch / *)
(* cache / summary service of the earthquake dashboard, as a state machine.*)
(*                                                                         *)
(* Units.  Date.now() and timestamps are milliseconds since the service    *)
(* was constructed.  Sizes are bytes.  Magnitudes are tenths (25 = 2.5).   *)
(* A record's time is milliseconds since local midnight of calendar day 0, *)
(* and a filter's startTime / endTime is a calendar day number (the ISO    *)
(* date parseISO reads).  An optional value is <<>> (absent) or <<v>>.     *)
(*                                                                         *)
(* A response object is immutable and the service only passes references   *)
(* to it around, so the state holds a response by its name (ResponseData   *)
(* gives the object), and a published record list as a Slice: the response *)
(* it was taken from and how many of its features it holds                 *)
(* (response.features is slice(0, length)).  Features gives the list.      *)
(***************************************************************************)
EXTENDS Integers, Sequences, FiniteSets, TLC

VARIABLES
    now,                \* Date.now()
    loading,            \* loadingSubject
    earthquakes,        \* earthquakesSubject (a Slice)
    summary,            \* summarySubject (<<>> is null)
    error,              \* errorSubject (<<>> is null)
    progress,           \* progressSubject
    progressSimulation, \* TRUE while the interval subscription is held
    cache,              \* the Map, as its entries in insertion order
    currentCacheSize,
    requests,           \* HTTP exchanges whose answer has not arrived yet
    timers,             \* pending setTimeout callbacks of the batch processing
    fetches,            \* calls of fetchEarthquakes so far
    input,              \* the values a specification draws: the arguments of
                        \* a direct call, the form's values, startTime
    toasts,             \* the toasts shown in the last operation
    lastEvent           \* history: the operation that led to this state

vars == <<now, loading, earthquakes, summary, error, progress,
          progressSimulation, cache, currentCacheSize, requests, timers,
          fetches, input, toasts, lastEvent>>

Null == <<>>
Some(x) == <<x>>

----------------------------------------------------------------------------
(* Program constants *)

CACHE_DURATION == 30 * 60 * 1000
MAX_CACHE_SIZE == 50 * 1024 * 1024
BATCH_SIZE == 500
INITIAL_BATCH == 100
MsPerDay == 24 * 60 * 60 * 1000

ERROR_MESSAGE == "Error fetching earthquake data. Please try again or refine your filters."

----------------------------------------------------------------------------
(* Bounds of the model *)

\* The clock advances in steps of TickMs, MaxTicks times.
TickMs == CACHE_DURATION
MaxTicks == 2
\* Calls of fetchEarthquakes in one run.
MaxFetches == 3
\* Longest record list the summary is applied to directly.
MaxLen == 3

----------------------------------------------------------------------------
(* Data: features, responses, filters *)

Feature(id, mag, time) ==
    [id |-> id, properties |-> [mag |-> mag, time |-> time]]

\* An EarthquakeResponse: its feature list, and the length of its JSON text
\* (which depends on the strings the features carry, not modelled further).
Response(features, jsonLength) ==
    [features |-> features, jsonLength |-> jsonLength]

Mi == 1024 * 1024

\* Three events on day 0, magnitudes 2.5, 6.1, 4.0; 30 MiB estimated.
RespThree ==
    Response(<<Feature(1, 25, 1000), Feature(2, 61, 2000), Feature(3, 40, 3000)>>,
             15 * Mi)
\* Two events sharing the maximum and one of negative magnitude; 20 MiB.
RespTie ==
    Response(<<Feature(4, 61, 1000), Feature(5, -5, MsPerDay + 1000),
               Feature(6, 61, 2 * MsPerDay)>>, 10 * Mi)
\* No event.
RespEmpty == Response(<<>>, 200)
\* Estimated at 52 MiB, more than the whole budget.
RespHuge == Response(<<Feature(7, 80, 5000)>>, 26 * Mi)
\* BATCH_SIZE + 1 events, over days 0..2; 30 MiB.
RespLarge ==
    Response([i \in 1..(BATCH_SIZE + 1) |->
                 Feature(100 + i, (i * 7) % 90, (i % 3) * MsPerDay + i)],
             15 * Mi)

\* Exactly BATCH_SIZE events, over days 0..2; 30 MiB.
RespFull ==
    Response([i \in 1..BATCH_SIZE |->
                 Feature(1000 + i, (i * 11) % 90, (i % 3) * MsPerDay + i)],
             15 * Mi)

\* A body that is valid JSON and no feature collection: {} (no features
\* property).
RespMalformed == [jsonLength |-> 2]

Responses == {"three", "tie", "empty", "huge", "large", "full"}

ResponseData(name) ==
    CASE name = "three" -> RespThree
      [] name = "tie" -> RespTie
      [] name = "empty" -> RespEmpty
      [] name = "huge" -> RespHuge
      [] name = "large" -> RespLarge
      [] name = "full" -> RespFull
      [] name = "malformed" -> RespMalformed
      [] OTHER -> Response(<<>>, 0)

\* Whether response.features is defined.
HasFeatures(name) == "features" \in DOMAIN ResponseData(name)

\* The first `length` features of a response; the initial [] is Slice("", 0).
Slice(name, length) == [response |-> name, length |-> length]

\* earthquakesSubject.next(undefined): what response.features is when the
\* response has no such property.
Undefined == Slice("undefined", 0)

Features(slice) ==
    SubSeq(ResponseData(slice.response).features, 1, slice.length)

\* The answers the server may give to a query.
ResponsesTo(filters) ==
    IF filters.startTime = filters.endTime
    THEN {"three", "empty", "huge"}
    ELSE {"tie", "large", "full"}

Filters(startTime, endTime, minMagnitude, maxMagnitude, box, limit, offset) ==
    [startTime |-> startTime, endTime |-> endTime,
     minMagnitude |-> minMagnitude, maxMagnitude |-> maxMagnitude,
     minLatitude |-> box[1], maxLatitude |-> box[2],
     minLongitude |-> box[3], maxLongitude |-> box[4],
     limit |-> limit, offset |-> offset]

NoBox == <<Null, Null, Null, Null>>

\* A single day; and a three-day span.
FilterDay == Filters(0, 0, 25, Null, NoBox, 500, 1)
FilterSpan == Filters(0, 2, 0, Some(90), NoBox, 500, 1)

FilterSet == {FilterDay, FilterSpan}

----------------------------------------------------------------------------
(* createCacheKey: JSON.stringify(filters), the defined properties in      *)
(* declaration order, each as a name and the text of its value.            *)

OptionalPair(name, opt) ==
    IF opt = Null THEN <<>> ELSE << <<name, opt[1]>> >>

createCacheKey(filters) ==
    << <<"startTime", filters.startTime>>, <<"endTime", filters.endTime>>,
       <<"minMagnitude", filters.minMagnitude>> >>
    \o OptionalPair("maxMagnitude", filters.maxMagnitude)
    \o OptionalPair("minLatitude", filters.minLatitude)
    \o OptionalPair("maxLatitude", filters.maxLatitude)
    \o OptionalPair("minLongitude", filters.minLongitude)
    \o OptionalPair("maxLongitude", filters.maxLongitude)
    \o << <<"limit", filters.limit>>, <<"offset", filters.offset>> >>

----------------------------------------------------------------------------
(* generateSummary.  The reductions visit the list from left to right, as  *)
(* Array.prototype.reduce and forEach do; a range is split in two only to  *)
(* keep the evaluation shallow: the left half is evaluated (Evaluated)     *)
(* before the right half starts from its result.                           *)

Evaluated(v) == v = v

\* (sum, eq) => sum + eq.properties.mag
RECURSIVE TotalMagnitude(_, _, _, _)
TotalMagnitude(eqs, sum, lo, hi) ==
    IF lo > hi THEN sum
    ELSE IF lo = hi THEN sum + eqs[lo].properties.mag
    ELSE LET mid == (lo + hi) \div 2
             left == TotalMagnitude(eqs, sum, lo, mid)
         IN  IF Evaluated(left)
             THEN TotalMagnitude(eqs, left, mid + 1, hi) ELSE left

\* Mutant: >= in place of >, which keeps the first of several maxima.
StrongerOfKeepsFirst(strongest, current) ==
    IF strongest.properties.mag >= current.properties.mag
    THEN strongest ELSE current

\* (strongest, current) =>
\*     strongest.properties.mag > current.properties.mag ? strongest : current
StrongerOf(strongest, current) ==
    IF strongest.properties.mag > current.properties.mag
    THEN strongest ELSE current

RECURSIVE ReduceStrongest(_, _, _, _)
ReduceStrongest(eqs, strongest, lo, hi) ==
    IF lo > hi THEN strongest
    ELSE IF lo = hi THEN StrongerOf(strongest, eqs[lo])
    ELSE LET mid == (lo + hi) \div 2
             left == ReduceStrongest(eqs, strongest, lo, mid)
         IN  IF Evaluated(left)
             THEN ReduceStrongest(eqs, left, mid + 1, hi) ELSE left

\* reduce without an initial value: starts from the first element.
StrongestEarthquake(eqs) == ReduceStrongest(eqs, eqs[1], 2, Len(eqs))

\* format(new Date(time), "yyyy-MM-dd"): the local calendar day of a time.
DayOf(time) == time \div MsPerDay

\* differenceInDays(endDate, startDate) of two calendar days.
differenceInDays(endDate, startDate) == endDate - startDate

\* Math.ceil(a / b) for a >= 0, b > 0.
Ceil(a, b) == (a + b - 1) \div b

\* Mutant: the seeding loop stops before the end date (i < daysDiff).
SeedDatesExclusive(filters) ==
    LET daysDiff == differenceInDays(filters.endTime, filters.startTime)
        shouldSample == daysDiff > 90
        sampleInterval == IF shouldSample THEN Ceil(daysDiff, 90) ELSE 1
        n == IF daysDiff <= 0 THEN 0 ELSE (daysDiff - 1) \div sampleInterval + 1
    IN  [k \in 1..n |->
            [date |-> filters.startTime + (k - 1) * sampleInterval, count |-> 0]]

\* The dates seeded with a zero count, in insertion order.
SeedDates(filters) ==
    LET daysDiff == differenceInDays(filters.endTime, filters.startTime)
        shouldSample == daysDiff > 90
        sampleInterval == IF shouldSample THEN Ceil(daysDiff, 90) ELSE 1
        n == IF daysDiff < 0 THEN 0 ELSE daysDiff \div sampleInterval + 1
    IN  [k \in 1..n |->
            [date |-> filters.startTime + (k - 1) * sampleInterval, count |-> 0]]

\* Mutant: only a date already in the map is counted.
DateMapIncrementSeeded(dateMap, date) ==
    [k \in DOMAIN dateMap |->
        IF dateMap[k].date = date
        THEN [date |-> date, count |-> dateMap[k].count + 1]
        ELSE dateMap[k]]

\* dateMap.set(date, (dateMap.get(date) || 0) + 1)
DateMapIncrement(dateMap, date) ==
    IF \E k \in DOMAIN dateMap : dateMap[k].date = date
    THEN [k \in DOMAIN dateMap |->
             IF dateMap[k].date = date
             THEN [date |-> date, count |-> dateMap[k].count + 1]
             ELSE dateMap[k]]
    ELSE Append(dateMap, [date |-> date, count |-> 1])

RECURSIVE CountPerDay(_, _, _, _)
CountPerDay(eqs, dateMap, lo, hi) ==
    IF lo > hi THEN dateMap
    ELSE IF lo = hi
         THEN DateMapIncrement(dateMap, DayOf(eqs[lo].properties.time))
    ELSE LET mid == (lo + hi) \div 2
             left == CountPerDay(eqs, dateMap, lo, mid)
         IN  IF Evaluated(left)
             THEN CountPerDay(eqs, left, mid + 1, hi) ELSE left

magnitudeRanges ==
    << [min |-> 0,  max |-> 20,  label |-> "0-2"],
       [min |-> 20, max |-> 40,  label |-> "2-4"],
       [min |-> 40, max |-> 60,  label |-> "4-6"],
       [min |-> 60, max |-> 80,  label |-> "6-8"],
       [min |-> 80, max |-> 100, label |-> "8+"] >>

\* eq.properties.mag >= range.min && (range.max === 10 || eq.properties.mag < range.max)
InRange(range, eq) ==
    /\ eq.properties.mag >= range.min
    /\ (range.max = 100 \/ eq.properties.mag < range.max)

MagnitudeDistribution(eqs) ==
    [r \in DOMAIN magnitudeRanges |->
        [range |-> magnitudeRanges[r].label,
         count |-> Cardinality({i \in DOMAIN eqs : InRange(magnitudeRanges[r], eqs[i])})]]

\* Mutant: no early return for the empty list; the series are built as for
\* any list (the seeded days, the five ranges).
GenerateSummaryNoEarlyReturn(eqs, filters) ==
    [count |-> Len(eqs),
     averageMagnitude |->
         [num |-> TotalMagnitude(eqs, 0, 1, Len(eqs)), den |-> Len(eqs)],
     strongestEarthquake |->
         IF Len(eqs) = 0 THEN Null ELSE Some(StrongestEarthquake(eqs)),
     frequencyPerDay |-> CountPerDay(eqs, SeedDates(filters), 1, Len(eqs)),
     magnitudeDistribution |-> MagnitudeDistribution(eqs)]

\* The value generateSummary publishes on summarySubject.  The average is the
\* exact quotient num / den.
GenerateSummary(eqs, filters) ==
    IF Len(eqs) = 0
    THEN [count |-> 0,
          averageMagnitude |-> [num |-> 0, den |-> 1],
          strongestEarthquake |-> Null,
          frequencyPerDay |-> <<>>,
          magnitudeDistribution |-> <<>>]
    ELSE [count |-> Len(eqs),
          averageMagnitude |->
              [num |-> TotalMagnitude(eqs, 0, 1, Len(eqs)), den |-> Len(eqs)],
          strongestEarthquake |-> Some(StrongestEarthquake(eqs)),
          frequencyPerDay |-> CountPerDay(eqs, SeedDates(filters), 1, Len(eqs)),
          magnitudeDistribution |-> MagnitudeDistribution(eqs)]

\* generateSummary of a published list.  The summaries of the batched
\* response's lists are evaluated once and looked up.
LongSlices ==
    {Slice("large", Len(RespLarge.features)), Slice("large", INITIAL_BATCH),
     Slice("full", Len(RespFull.features)), Slice("full", INITIAL_BATCH)}

Summaries ==
    {<<in, GenerateSummary(Features(in[1]), in[2])>> :
        in \in LongSlices \X FilterSet}

Summarize(slice, filters) ==
    IF \E s \in Summaries : s[1] = <<slice, filters>>
    THEN (CHOOSE s \in Summaries : s[1] = <<slice, filters>>)[2]
    ELSE GenerateSummary(Features(slice), filters)

----------------------------------------------------------------------------
(* The cache: a Map in insertion order, each entry with its key.           *)

CacheHas(c, key) == \E k \in DOMAIN c : c[k].key = key

CacheGet(c, key) == c[CHOOSE k \in DOMAIN c : c[k].key = key]

CacheDelete(c, key) == SelectSeq(c, LAMBDA e : e.key # key)

\* Map.set: an existing key keeps its place.
CacheSet(c, entry) ==
    IF CacheHas(c, entry.key)
    THEN [k \in DOMAIN c |-> IF c[k].key = entry.key THEN entry ELSE c[k]]
    ELSE Append(c, entry)

RECURSIVE SumSizes(_)
SumSizes(c) == IF c = <<>> THEN 0 ELSE c[1].size + SumSizes(Tail(c))

\* jsonString.length * 2
estimateObjectSize(obj) == ResponseData(obj).jsonLength * 2

\* The result of a cache operation: the map, the tracked size, and the value
\* returned (getFromCache only).
CacheState(c, size, data) ==
    [cache |-> c, currentCacheSize |-> size, data |-> data]

\* entries.sort((a, b) => a[1].timestamp - b[1].timestamp), a stable sort.
RECURSIVE InsertByTimestamp(_, _)
InsertByTimestamp(sorted, e) ==
    IF sorted = <<>> THEN <<e>>
    ELSE IF e.timestamp < sorted[Len(sorted)].timestamp
         THEN Append(InsertByTimestamp(SubSeq(sorted, 1, Len(sorted) - 1), e),
                     sorted[Len(sorted)])
         ELSE Append(sorted, e)

RECURSIVE SortByTimestamp(_)
SortByTimestamp(c) ==
    IF c = <<>> THEN <<>>
    ELSE InsertByTimestamp(SortByTimestamp(SubSeq(c, 1, Len(c) - 1)), c[Len(c)])

\* The loop over the sorted entries: delete one, stop at 80% of the budget.
RECURSIVE RemoveOldest(_, _, _)
RemoveOldest(entries, c, size) ==
    IF entries = <<>> THEN CacheState(c, size, Null)
    ELSE LET entry == entries[1]
             size1 == size - entry.size
             c1 == CacheDelete(c, entry.key)
         IN  IF size1 <= (MAX_CACHE_SIZE * 8) \div 10
             THEN CacheState(c1, size1, Null)
             ELSE RemoveOldest(Tail(entries), c1, size1)

\* Mutant: a sweep that purges nothing.
cleanupCacheKeepsExpired(c, size, t) == CacheState(c, size, Null)

cleanupCache(c, size, t) ==
    LET expired(e) == t - e.timestamp > CACHE_DURATION
        c1 == SelectSeq(c, LAMBDA e : ~expired(e))
        size1 == size - SumSizes(SelectSeq(c, expired))
    IN  IF size1 > MAX_CACHE_SIZE
        THEN RemoveOldest(SortByTimestamp(c1), c1, size1)
        ELSE CacheState(c1, size1, Null)

\* Mutant: the comparison turned round, so that a fresh entry counts as expired.
getFromCacheInverted(c, size, key, t) ==
    IF ~CacheHas(c, key) THEN CacheState(c, size, Null)
    ELSE LET cached == CacheGet(c, key)
         IN  IF t - cached.timestamp < CACHE_DURATION
             THEN CacheState(CacheDelete(c, key), size - cached.size, Null)
             ELSE CacheState(c, size, Some(cached.data))

\* Mutant: >= in place of >, an entry expires at the age of CACHE_DURATION.
getFromCacheStrict(c, size, key, t) ==
    IF ~CacheHas(c, key) THEN CacheState(c, size, Null)
    ELSE LET cached == CacheGet(c, key)
         IN  IF t - cached.timestamp >= CACHE_DURATION
             THEN CacheState(CacheDelete(c, key), size - cached.size, Null)
             ELSE CacheState(c, size, Some(cached.data))

\* Mutant: the expired entry is deleted and its size is not subtracted.
getFromCacheKeepsSize(c, size, key, t) ==
    IF ~CacheHas(c, key) THEN CacheState(c, size, Null)
    ELSE LET cached == CacheGet(c, key)
         IN  IF t - cached.timestamp > CACHE_DURATION
             THEN CacheState(CacheDelete(c, key), size, Null)
             ELSE CacheState(c, size, Some(cached.data))

\* Mutant: a hit stores the entry again, stamped with the time of the hit.
getFromCacheRestamps(c, size, key, t) ==
    IF ~CacheHas(c, key) THEN CacheState(c, size, Null)
    ELSE LET cached == CacheGet(c, key)
         IN  IF t - cached.timestamp > CACHE_DURATION
             THEN CacheState(CacheDelete(c, key), size - cached.size, Null)
             ELSE CacheState(CacheSet(c, [cached EXCEPT !.timestamp = t]),
                             size, Some(cached.data))

getFromCache(c, size, key, t) ==
    IF ~CacheHas(c, key) THEN CacheState(c, size, Null)
    ELSE LET cached == CacheGet(c, key)
         IN  IF t - cached.timestamp > CACHE_DURATION
             THEN CacheState(CacheDelete(c, key), size - cached.size, Null)
             ELSE CacheState(c, size, Some(cached.data))

\* Mutant: the second size check is missing, the entry is always stored.
addToCacheAlways(c, size0, key, data, t) ==
    LET size == estimateObjectSize(data)
        entry == [key |-> key, data |-> data, timestamp |-> t, size |-> size]
        cleaned == IF size0 + size > MAX_CACHE_SIZE
                   THEN cleanupCache(c, size0, t)
                   ELSE CacheState(c, size0, Null)
    IN  CacheState(CacheSet(cleaned.cache, entry),
                   cleaned.currentCacheSize + size, Null)

\* Mutant: the entry is stored and its size is not added to the usage.
addToCacheUntracked(c, size0, key, data, t) ==
    LET size == estimateObjectSize(data)
        entry == [key |-> key, data |-> data, timestamp |-> t, size |-> size]
        cleaned == IF size0 + size > MAX_CACHE_SIZE
                   THEN cleanupCache(c, size0, t)
                   ELSE CacheState(c, size0, Null)
    IN  IF cleaned.currentCacheSize + size > MAX_CACHE_SIZE
        THEN cleaned
        ELSE CacheState(CacheSet(cleaned.cache, entry),
                        cleaned.currentCacheSize, Null)

addToCache(c, size0, key, data, t) ==
    LET size == estimateObjectSize(data)
        entry == [key |-> key, data |-> data, timestamp |-> t, size |-> size]
        cleaned == IF size0 + size > MAX_CACHE_SIZE
                   THEN cleanupCache(c, size0, t)
                   ELSE CacheState(c, size0, Null)
    IN  IF cleaned.currentCacheSize + size > MAX_CACHE_SIZE
        THEN cleaned
        ELSE CacheState(CacheSet(cleaned.cache, entry),
                        cleaned.currentCacheSize + size, Null)

----------------------------------------------------------------------------
(* The service *)

\* What lastEvent records: the operation, its filter and the response it
\* handled; live: whether the request it answers had not been cancelled (a
\* response, a failure), or a request was in flight at the call (a fetch);
\* what getFromCache returned; and the cache before the operation (each
\* entry's key, timestamp and size, and the tracked size).
Event(op, filters, data, live, got) ==
    [op |-> op, filters |-> filters, data |-> data, live |-> live, got |-> got,
     preCache |-> [k \in DOMAIN cache |->
                     [key |-> cache[k].key, timestamp |-> cache[k].timestamp,
                      size |-> cache[k].size]],
     preSize |-> currentCacheSize]

\* An operation no property looks back at.
Other == [op |-> "other", filters |-> Null, data |-> Null, live |-> FALSE,
          got |-> Null, preCache |-> <<>>, preSize |-> 0]

\* if (value): null, undefined and 0 are falsy.
Truthy(opt) == opt # Null /\ opt[1] # 0

\* Math.max(a, b)
Max(a, b) == IF a > b THEN a ELSE b

\* Mutant: every coordinate that is given is set on its own.
buildRequestParamsEach(filters) ==
    << <<"format", "geojson">>,
       <<"starttime", filters.startTime>>,
       <<"endtime", filters.endTime>>,
       <<"minmagnitude", filters.minMagnitude>>,
       <<"limit", filters.limit>>,
       <<"offset", Max(filters.offset, 1)>>,
       <<"orderby", "time">> >>
    \o (IF Truthy(filters.maxMagnitude)
        THEN << <<"maxmagnitude", filters.maxMagnitude[1]>> >> ELSE <<>>)
    \o (IF Truthy(filters.minLatitude)
        THEN << <<"minlatitude", filters.minLatitude[1]>> >> ELSE <<>>)
    \o (IF Truthy(filters.maxLatitude)
        THEN << <<"maxlatitude", filters.maxLatitude[1]>> >> ELSE <<>>)
    \o (IF Truthy(filters.minLongitude)
        THEN << <<"minlongitude", filters.minLongitude[1]>> >> ELSE <<>>)
    \o (IF Truthy(filters.maxLongitude)
        THEN << <<"maxlongitude", filters.maxLongitude[1]>> >> ELSE <<>>)

\* buildRequestParams: the HttpParams, as the parameters in the order they
\* are set, each with the value whose text it carries.
buildRequestParams(filters) ==
    << <<"format", "geojson">>,
       <<"starttime", filters.startTime>>,
       <<"endtime", filters.endTime>>,
       <<"minmagnitude", filters.minMagnitude>>,
       <<"limit", filters.limit>>,
       <<"offset", Max(filters.offset, 1)>>,
       <<"orderby", "time">> >>
    \o (IF Truthy(filters.maxMagnitude)
        THEN << <<"maxmagnitude", filters.maxMagnitude[1]>> >> ELSE <<>>)
    \o (IF /\ Truthy(filters.minLatitude)
           /\ Truthy(filters.maxLatitude)
           /\ Truthy(filters.minLongitude)
           /\ Truthy(filters.maxLongitude)
        THEN << <<"minlatitude", filters.minLatitude[1]>>,
                <<"maxlatitude", filters.maxLatitude[1]>>,
                <<"minlongitude", filters.minLongitude[1]>>,
                <<"maxlongitude", filters.maxLongitude[1]>> >>
        ELSE <<>>)

\* An HTTP exchange: the filter of the fetch, the parameters of the GET, and
\* whether its pipeline has not been ended by cancelSubject.
Request(filters, live) ==
    [filters |-> filters, live |-> live, params |-> buildRequestParams(filters)]

LiveRequests == {r \in requests : r.live}

\* Mutant: cancelCurrentRequest without cancelSubject.next().
CancelSubjectSilent(reqs) == reqs

\* cancelSubject.next(): every pipeline under takeUntil(cancelSubject) ends.
CancelSubjectNext(reqs) == {Request(r.filters, FALSE) : r \in reqs}

\* Mutant: a pipeline without takeUntil.
SubscribedForEver(r) == TRUE

\* takeUntil(this.cancelSubject): whether the subscriber still receives.
Subscribed(r) == r.live

\* The first timer of processResponseInBatches and the later ones of
\* processNextBatch: the response whose features are processed, and the
\* batch to process when the timer fires.  History: the call of
\* fetchEarthquakes the response answers (its number), whether no other
\* batch processing was pending when this one began, and the lengths of the
\* record lists published for this response so far.
Timer(response, filters, currentBatch, fetch, alone, published) ==
    [response |-> response, filters |-> filters, currentBatch |-> currentBatch,
     fetch |-> fetch, alone |-> alone, published |-> published]

\* What lastEvent records of a call of processNextBatch: the response, the
\* fetch it answers, the lengths published for it so far, and whether all
\* batches had been processed (nothing is published then).
BatchEvent(t, published, done) ==
    [op |-> "batch", filters |-> Some(t.filters), data |-> Some(t.response),
     live |-> FALSE, got |-> Null, preCache |-> <<>>, preSize |-> 0,
     fetch |-> t.fetch, alone |-> t.alone, published |-> published,
     done |-> done]

NumFeatures(response) == Len(ResponseData(response).features)

\* Mutant: no interim subset, the whole list is published at once.
FirstFeaturesWhole(response) == Slice(response, NumFeatures(response))

\* What processResponseInBatches publishes at once.
FirstFeatures(response) ==
    IF NumFeatures(response) < BATCH_SIZE
    THEN Slice(response, NumFeatures(response))
    ELSE Slice(response, INITIAL_BATCH)

\* this.toastr.info / success / warning / error (message)
Toast(type, message) == [type |-> type, message |-> message]

\* The toast processResponse shows for a record list of a given length.
ProcessResponseToast(length, filters) ==
    IF length = 0
    THEN Toast("info", <<"No earthquakes found matching your criteria">>)
    ELSE IF length > filters.limit
    THEN Toast("warning",
               <<"Showing maximum of ", filters.limit,
                 " results. Consider refining your filters for more specific data.">>)
    ELSE Toast("success",
               <<"Found ", length, " earthquakes matching your criteria">>)

\* daysDiff > 90
isLargeDateRange(filters) ==
    differenceInDays(filters.endTime, filters.startTime) > 90

LargeDateRangeToast ==
    Toast("warning",
          <<"Large date range detected. This request may take some time to complete. Please wait while data is being fetched.">>)

\* Mutant: one toast for every error.
ErrorToastSame(name) ==
    Toast("error",
          <<"Failed to fetch earthquake data. Please check your connection and try again.">>)

\* The toast catchError shows for an error of a given name.
ErrorToast(name) ==
    IF name = "TimeoutError"
    THEN Toast("error",
               <<"Request timed out. Try reducing the date range or adding more filters.">>)
    ELSE Toast("error",
               <<"Failed to fetch earthquake data. Please check your connection and try again.">>)

Init ==
    /\ now = 0
    /\ loading = FALSE
    /\ earthquakes = Slice("", 0)
    /\ summary = Null
    /\ error = Null
    /\ progress = 0
    /\ progressSimulation = FALSE
    /\ cache = <<>>
    /\ currentCacheSize = 0
    /\ requests = {}
    /\ timers = {}
    /\ fetches = 0
    /\ input = Null
    /\ toasts = <<>>
    /\ lastEvent = Other

\* fetchEarthquakes(filters), called after the caller has shown the toasts
\* `shown`
FetchEarthquakesAfter(filters, shown) ==
    LET cancelled == CancelSubjectNext(requests)
        cacheKey == createCacheKey(filters)
        got == getFromCache(cache, currentCacheSize, cacheKey, now)
    IN  /\ fetches < MaxFetches
        /\ fetches' = fetches + 1
        /\ error' = Null
        /\ cache' = got.cache
        /\ currentCacheSize' = got.currentCacheSize
        /\ lastEvent' = Event("fetch", Some(filters), Null, LiveRequests # {},
                              got.data)
        /\ IF got.data # Null /\ ~HasFeatures(got.data[1])
           THEN \* processResponse publishes response.features, and
                \* generateSummary throws on earthquakes.length: the rest
                \* of fetchEarthquakes does not run.
                /\ earthquakes' = Undefined
                /\ progress' = 0
                /\ loading' = TRUE
                /\ progressSimulation' = FALSE
                /\ requests' = cancelled
                /\ toasts' = shown
                /\ UNCHANGED summary
           ELSE IF got.data # Null
           THEN /\ earthquakes' = Slice(got.data[1], NumFeatures(got.data[1]))
                /\ summary' = Some(Summarize(Slice(got.data[1],
                                                   NumFeatures(got.data[1])),
                                             filters))
                /\ progress' = 100
                /\ loading' = FALSE
                /\ progressSimulation' = FALSE
                /\ requests' = cancelled
                /\ toasts' = shown \o
                       <<ProcessResponseToast(NumFeatures(got.data[1]),
                                              filters),
                         Toast("info", <<"Data loaded from cache">>)>>
           ELSE /\ progress' = 0
                /\ loading' = TRUE
                /\ progressSimulation' = TRUE
                /\ requests' = cancelled \cup {Request(filters, TRUE)}
                /\ toasts' = shown \o (IF isLargeDateRange(filters)
                                       THEN <<LargeDateRangeToast>> ELSE <<>>)
                /\ UNCHANGED <<earthquakes, summary>>
        /\ UNCHANGED <<now, timers, input>>

\* fetchEarthquakes(filters)
FetchEarthquakes(filters) ==
    FetchEarthquakesAfter(filters, <<>>)

\* cancelCurrentRequest(), called by the filter form
CancelCurrentRequest ==
    /\ requests' = CancelSubjectNext(requests)
    /\ progress' = IF LiveRequests # {} THEN 100 ELSE progress
    /\ progressSimulation' = FALSE
    /\ loading' = FALSE
    /\ toasts' = <<>>
    /\ lastEvent' = Other
    /\ UNCHANGED <<now, earthquakes, summary, error, cache, currentCacheSize,
                   timers, fetches, input>>

\* The answer to request r arrives: the subscriber's next callback, then
\* finalize; nothing when the pipeline has ended.
HttpResponse(r, response) ==
    /\ r \in requests
    /\ requests' = requests \ {r}
    /\ lastEvent' = Event("response", Some(r.filters), Some(response),
                          r.live, Null)
    /\ IF Subscribed(r) /\ ~HasFeatures(response)
       THEN \* addToCache, then processResponseInBatches throws on
            \* earthquakes.length; the error is reported outside the
            \* pipeline, which completes: finalize.
            LET added == addToCache(cache, currentCacheSize,
                                    createCacheKey(r.filters), response, now)
            IN  /\ cache' = added.cache
                /\ currentCacheSize' = added.currentCacheSize
                /\ toasts' = <<>>
                /\ progressSimulation' = FALSE
                /\ loading' = FALSE
                /\ progress' = 100
                /\ UNCHANGED <<earthquakes, summary, timers>>
       ELSE IF Subscribed(r)
       THEN LET added == addToCache(cache, currentCacheSize,
                                    createCacheKey(r.filters), response, now)
                first == FirstFeatures(response)
            IN  /\ cache' = added.cache
                /\ currentCacheSize' = added.currentCacheSize
                /\ earthquakes' = first
                /\ summary' = Some(Summarize(first, r.filters))
                /\ timers' = IF NumFeatures(response) < BATCH_SIZE
                             THEN timers
                             ELSE timers \cup {Timer(response, r.filters, 0,
                                                      fetches, timers = {},
                                                      <<first.length>>)}
                /\ toasts' =
                       IF NumFeatures(response) < BATCH_SIZE
                       THEN <<ProcessResponseToast(first.length, r.filters)>>
                       ELSE <<Toast("info",
                                    <<"Processing ", NumFeatures(response),
                                      " earthquakes in batches for better performance">>),
                              ProcessResponseToast(first.length, r.filters)>>
                /\ progressSimulation' = FALSE
                /\ loading' = FALSE
                /\ progress' = 100
       ELSE /\ toasts' = <<>>
            /\ UNCHANGED <<cache, currentCacheSize, earthquakes, summary,
                           timers, progressSimulation, loading, progress>>
    /\ UNCHANGED <<now, error, fetches, input>>

ErrorNames == {"TimeoutError", "HttpErrorResponse"}

\* Mutant: retry() ahead of catchError; the failed request is sent again and
\* nothing is reported.
HttpErrorRetries(r, name) ==
    /\ r \in requests
    /\ name = "TimeoutError" => Subscribed(r)
    /\ lastEvent' = Event(name, Some(r.filters), Null, r.live, Null)
    /\ toasts' = <<>>
    /\ UNCHANGED <<now, loading, earthquakes, summary, error, progress,
                   progressSimulation, cache, currentCacheSize, requests,
                   timers, fetches, input>>

\* The request fails or timeout(120000) fires: catchError, then finalize.
\* A pipeline that has ended has no timeout left and ignores a failure.
HttpError(r, name) ==
    /\ r \in requests
    /\ name = "TimeoutError" => Subscribed(r)
    /\ lastEvent' = Event(name, Some(r.filters), Null, r.live, Null)
    /\ IF Subscribed(r)
       THEN /\ error' = Some(ERROR_MESSAGE)
            /\ toasts' = <<ErrorToast(name)>>
            /\ requests' = IF name = "TimeoutError"
                           THEN CancelSubjectNext(requests \ {r})
                           ELSE requests \ {r}
            /\ progressSimulation' = FALSE
            /\ loading' = FALSE
            /\ progress' = 100
       ELSE /\ requests' = requests \ {r}
            /\ toasts' = <<>>
            /\ UNCHANGED <<error, progressSimulation, loading, progress>>
    /\ UNCHANGED <<now, earthquakes, summary, cache, currentCacheSize, timers,
                   fetches, input>>

\* Mutant: the batch of records is published and the summary is never
\* generated.
BatchSummaryKept(t, current) == current

\* if (currentBatch === totalBatches - 1) generateSummary(earthquakes, filters):
\* the summary on summarySubject after the batch of timer t.
BatchSummary(t, current) ==
    IF t.currentBatch = Ceil(NumFeatures(t.response), BATCH_SIZE) - 1
    THEN Some(Summarize(Slice(t.response, NumFeatures(t.response)), t.filters))
    ELSE current

\* A timer of the batch processing fires: processNextBatch
ProcessNextBatch(t) ==
    LET length == NumFeatures(t.response)
        totalBatches == Ceil(length, BATCH_SIZE)
        currentBatch == t.currentBatch
        start == currentBatch * BATCH_SIZE
        end == IF start + BATCH_SIZE < length THEN start + BATCH_SIZE ELSE length
    IN  /\ t \in timers
        /\ toasts' = <<>>
        /\ IF currentBatch >= totalBatches
           THEN /\ progress' = 100
                /\ timers' = timers \ {t}
                /\ lastEvent' = BatchEvent(t, t.published, TRUE)
                /\ UNCHANGED <<earthquakes, summary>>
           ELSE /\ earthquakes' = Slice(t.response, end)
                /\ lastEvent' = BatchEvent(t, Append(t.published, end), FALSE)
                /\ summary' = BatchSummary(t, summary)
                /\ progress' = 95 + (currentBatch * 5) \div totalBatches
                /\ timers' = (timers \ {t})
                               \cup {Timer(t.response, t.filters, currentBatch + 1,
                                           t.fetch, t.alone,
                                           Append(t.published, end))}
        /\ UNCHANGED <<now, loading, error, progressSimulation, cache,
                       currentCacheSize, requests, fetches, input>>

\* The periodic timer of setupCacheCleanup fires
CleanupTimer ==
    LET cleaned == cleanupCache(cache, currentCacheSize, now)
    IN  /\ cache' = cleaned.cache
        /\ currentCacheSize' = cleaned.currentCacheSize
        /\ toasts' = <<>>
        /\ lastEvent' = Other
        /\ UNCHANGED <<now, loading, earthquakes, summary, error, progress,
                       progressSimulation, requests, timers, fetches, input>>

\* Time passes: TickMs at once.  A live request (timeout(120000)) and the
\* timers of the batch processing (100 ms, 10 ms) end sooner than that.
Tick ==
    /\ now < MaxTicks * TickMs
    /\ LiveRequests = {}
    /\ timers = {}
    /\ now' = now + TickMs
    /\ toasts' = <<>>
    /\ lastEvent' = Other
    /\ UNCHANGED <<loading, earthquakes, summary, error, progress,
                   progressSimulation, cache, currentCacheSize, requests,
                   timers, fetches, input>>

Next ==
    \/ \E filters \in FilterSet : FetchEarthquakes(filters)
    \/ CancelCurrentRequest
    \/ \E r \in requests : \E response \in ResponsesTo(r.filters) :
            HttpResponse(r, response)
    \/ \E r \in requests, name \in ErrorNames : HttpError(r, name)
    \/ \E t \in timers : ProcessNextBatch(t)
    \/ CleanupTimer
    \/ Tick

Spec == Init /\ [][Next]_vars

\* The service with a server that may also answer a body without a feature
\* list.
MalformedNext ==
    \/ Next
    \/ \E r \in requests : HttpResponse(r, "malformed")

MalformedSpec == Init /\ [][MalformedNext]_vars

\* The network call of a request ends: http.get answers or fails, or
\* timeout(120000) fires.
NetworkCompletes ==
    \E r \in requests :
        \/ \E response \in ResponsesTo(r.filters) \cup {"malformed"} :
               HttpResponse(r, response)
        \/ \E name \in ErrorNames : HttpError(r, name)

\* The same service, where every network call ends.  Nothing obliges the
\* user to call fetch or cancel again.
MalformedFairSpec == MalformedSpec /\ WF_vars(NetworkCompletes)

----------------------------------------------------------------------------
(* One fetch of a fresh service, with a filter drawn from a bounded set:   *)
(* the request it sends.                                                   *)

\* A coordinate that is absent, zero, or another value.
Coordinates == {Null, Some(0), Some(10)}

\* Offsets: negative, zero (what the filter form passes), one and more.
Offsets == {-1, 0, 1, 2}

ParamFilters ==
    {Filters(0, 2, 25, maxMagnitude, box, 500, offset) :
        maxMagnitude \in {Null, Some(0), Some(60)},
        box \in Coordinates \X Coordinates \X Coordinates \X Coordinates,
        offset \in Offsets}

ParamsInit ==
    /\ now = 0
    /\ loading = FALSE
    /\ earthquakes = Slice("", 0)
    /\ summary = Null
    /\ error = Null
    /\ progress = 0
    /\ progressSimulation = FALSE
    /\ cache = <<>>
    /\ currentCacheSize = 0
    /\ requests = {}
    /\ timers = {}
    /\ fetches = 0
    /\ toasts = <<>>
    /\ lastEvent = Other
    /\ \E filters \in ParamFilters : input = Some([filters |-> filters])

\* fetchEarthquakes(filters) with the filter drawn
FetchInput ==
    /\ input # Null
    /\ fetches = 0
    /\ FetchEarthquakes(input[1].filters)

ParamsNext == FetchInput

ParamsSpec == ParamsInit /\ [][ParamsNext]_vars

----------------------------------------------------------------------------
\* The filter form (FilterComponent).  A control holds Null when it is
\* empty; dates are days, magnitudes tenths, coordinates degrees.

FormValues ==
    [startTime : {Null, Some(0), Some(2)},
     endTime : {Some(0), Some(2)},
     minMagnitude : {Null, Some(-10), Some(0), Some(30)},
     maxMagnitude : {Null, Some(20), Some(60)},
     minLatitude : {Null, Some(10), Some(100)},
     maxLatitude : {Null, Some(10)},
     minLongitude : {Null, Some(10)},
     maxLongitude : {Null, Some(10)},
     limit : {Null, Some(0), Some(1), Some(100), Some(500), Some(501)}]

\* Validators.required
Required(value) == value # Null

\* Validators.min(min): an empty control passes.
ValidMin(value, min) == value = Null \/ value[1] >= min

\* Validators.max(max): an empty control passes.
ValidMax(value, max) == value = Null \/ value[1] <= max

\* dateRangeValidator(control): TRUE when it returns no error
dateRangeValidator(form) ==
    (form.startTime # Null /\ form.endTime # Null) =>
        ~(form.startTime[1] > form.endTime[1])

\* filterForm.valid, with the validators ngOnInit gives the controls
FormValidNoGroupValidator(form) ==
    /\ Required(form.startTime)
    /\ Required(form.endTime)
    /\ Required(form.minMagnitude) /\ ValidMin(form.minMagnitude, 0)
    /\ ValidMin(form.maxMagnitude, 0)
    /\ ValidMin(form.minLatitude, -90) /\ ValidMax(form.minLatitude, 90)
    /\ ValidMin(form.maxLatitude, -90) /\ ValidMax(form.maxLatitude, 90)
    /\ ValidMin(form.minLongitude, -180) /\ ValidMax(form.minLongitude, 180)
    /\ ValidMin(form.maxLongitude, -180) /\ ValidMax(form.maxLongitude, 180)
    /\ Required(form.limit) /\ ValidMin(form.limit, 1)
    /\ ValidMax(form.limit, 500)

FormValid(form) ==
    /\ FormValidNoGroupValidator(form)
    /\ dateRangeValidator(form)

\* hasPartialCoords in applyFilters
hasPartialCoords(form) ==
    LET hasMinLat == form.minLatitude # Null
        hasMaxLat == form.maxLatitude # Null
        hasMinLong == form.minLongitude # Null
        hasMaxLong == form.maxLongitude # Null
    IN  /\ hasMinLat \/ hasMaxLat \/ hasMinLong \/ hasMaxLong
        /\ ~(hasMinLat /\ hasMaxLat /\ hasMinLong /\ hasMaxLong)

\* The filters applyFilters builds from the form's values.
FormFilters(form) ==
    Filters(form.startTime[1], form.endTime[1], form.minMagnitude[1],
            form.maxMagnitude,
            <<form.minLatitude, form.maxLatitude,
              form.minLongitude, form.maxLongitude>>,
            form.limit[1], 0)

PartialCoordsToast ==
    Toast("warning",
          <<"For geographic filtering, all coordinate fields (min/max latitude and longitude) must be provided">>)

FormInit ==
    /\ now = 0
    /\ loading = FALSE
    /\ earthquakes = Slice("", 0)
    /\ summary = Null
    /\ error = Null
    /\ progress = 0
    /\ progressSimulation = FALSE
    /\ cache = <<>>
    /\ currentCacheSize = 0
    /\ requests = {}
    /\ timers = {}
    /\ fetches = 0
    /\ toasts = <<>>
    /\ lastEvent = Other
    /\ \E form \in FormValues : input = Some([form |-> form])

\* applyFilters(); filtersChanged.emit(filters) runs onFiltersChanged, which
\* calls fetchEarthquakes(filters).
ApplyFilters ==
    /\ input # Null
    /\ fetches = 0
    /\ LET form == input[1].form
       IN  IF ~FormValid(form)
           THEN /\ toasts' = <<Toast("error",
                                     <<"Please correct the errors in the form">>)>>
                /\ UNCHANGED <<now, loading, earthquakes, summary, error,
                               progress, progressSimulation, cache,
                               currentCacheSize, requests, timers, fetches,
                               input, lastEvent>>
           ELSE IF /\ form.maxMagnitude # Null
                   /\ form.minMagnitude[1] > form.maxMagnitude[1]
           THEN /\ toasts' = <<Toast("error",
                                     <<"Minimum magnitude must be less than maximum magnitude">>)>>
                /\ UNCHANGED <<now, loading, earthquakes, summary, error,
                               progress, progressSimulation, cache,
                               currentCacheSize, requests, timers, fetches,
                               input, lastEvent>>
           ELSE FetchEarthquakesAfter(FormFilters(form),
                                      IF hasPartialCoords(form)
                                      THEN <<PartialCoordsToast>> ELSE <<>>)

FormNext == ApplyFilters

FormSpec == FormInit /\ [][FormNext]_vars

----------------------------------------------------------------------------
\* The progress simulation of one fetch.  `now` is Date.now() in ms; the
\* fetch is called at the time input holds, which is startTime.

\* timeout(120000)
TIMEOUT == 120000

\* interval(200)
IntervalMs == 200

\* Mutant: a curve that falls back between 30 s and 60 s.
progressCurveDips ==
    <<[time |-> 0, progress |-> 0], [time |-> 1000, progress |-> 5],
      [time |-> 3000, progress |-> 15], [time |-> 8000, progress |-> 30],
      [time |-> 15000, progress |-> 50], [time |-> 30000, progress |-> 70],
      [time |-> 60000, progress |-> 58], [time |-> 90000, progress |-> 90],
      [time |-> 120000, progress |-> 94]>>

progressCurve ==
    <<[time |-> 0, progress |-> 0], [time |-> 1000, progress |-> 5],
      [time |-> 3000, progress |-> 15], [time |-> 8000, progress |-> 30],
      [time |-> 15000, progress |-> 50], [time |-> 30000, progress |-> 70],
      [time |-> 60000, progress |-> 85], [time |-> 90000, progress |-> 90],
      [time |-> 120000, progress |-> 94]>>

\* Math.round of the fraction num / den (den > 0): floor(num / den + 1/2)
Round(num, den) == (2 * num + den) \div (2 * den)

\* The value the interval callback publishes at an elapsed time: the linear
\* interpolation of the segment elapsed falls in, 0 when it falls in none,
\* the last point's progress from the last point's time on; rounded.
SimulatedProgress(elapsed) ==
    LET last == progressCurve[Len(progressCurve)]
        segments == {i \in 1..(Len(progressCurve) - 1) :
                        /\ elapsed >= progressCurve[i].time
                        /\ elapsed < progressCurve[i + 1].time}
    IN  IF elapsed >= last.time THEN Round(last.progress, 1)
        ELSE IF segments = {} THEN Round(0, 1)
        ELSE LET i == CHOOSE i \in segments : \A j \in segments : i <= j
                 current == progressCurve[i]
                 next == progressCurve[i + 1]
             IN  Round(current.progress * (next.time - current.time)
                         + (elapsed - current.time)
                             * (next.progress - current.progress),
                       next.time - current.time)

\* The elapsed times at which the callback runs: every period of the
\* interval, and 1 ms around each point of the curve (a callback runs late).
ElapsedTimes ==
    {IntervalMs * k : k \in 1..(TIMEOUT \div IntervalMs + 1)}
        \cup {progressCurve[i].time + d :
                i \in 2..Len(progressCurve), d \in {-1, 1}}

StartTimes == {0, 7}

ProgressInit ==
    /\ \E startTime \in StartTimes :
           /\ now = startTime
           /\ input = Some([startTime |-> startTime])
    /\ loading = FALSE
    /\ earthquakes = Slice("", 0)
    /\ summary = Null
    /\ error = Null
    /\ progress = 0
    /\ progressSimulation = FALSE
    /\ cache = <<>>
    /\ currentCacheSize = 0
    /\ requests = {}
    /\ timers = {}
    /\ fetches = 0
    /\ toasts = <<>>
    /\ lastEvent = Other

\* fetchEarthquakes(filters) at startTime
FetchAtStartTime ==
    /\ fetches = 0
    /\ FetchEarthquakes(FilterSpan)

\* The callback of the interval runs, at a later elapsed time than before:
\* progressSubject.next(Math.round(progress)).  stopProgressSimulation and
\* cancelSubject.next() end the interval.
IntervalCallback ==
    /\ progressSimulation
    /\ \E elapsed \in ElapsedTimes :
           /\ elapsed > now - input[1].startTime
           /\ now' = input[1].startTime + elapsed
           /\ progress' = SimulatedProgress(elapsed)
    /\ toasts' = <<>>
    /\ lastEvent' = [Other EXCEPT !.op = "interval"]
    /\ UNCHANGED <<loading, earthquakes, summary, error, progressSimulation,
                   cache, currentCacheSize, requests, timers, fetches, input>>

ProgressNext ==
    \/ FetchAtStartTime
    \/ IntervalCallback
    \/ CancelCurrentRequest
    \/ \E r \in requests : \E response \in ResponsesTo(r.filters) :
           HttpResponse(r, response)
    \/ \E r \in requests : \E name \in ErrorNames : HttpError(r, name)
    \/ \E t \in timers : ProcessNextBatch(t)

ProgressSpec == ProgressInit /\ [][ProgressNext]_vars

----------------------------------------------------------------------------
\* The classification of a magnitude (tenths), as the map and the table
\* call it for a marker or a row.

getMagnitudeColor(magnitude) ==
    IF magnitude < 20 THEN "#1976D2"
    ELSE IF magnitude < 40 THEN "#43A047"
    ELSE IF magnitude < 60 THEN "#FFC107"
    ELSE IF magnitude < 80 THEN "#FF9800"
    ELSE "#F44336"

\* Mutant: the bounds of the classes belong to the class below.
getMagnitudeDescriptionInclusive(magnitude) ==
    IF magnitude <= 20 THEN "Minor"
    ELSE IF magnitude <= 40 THEN "Light"
    ELSE IF magnitude <= 60 THEN "Moderate"
    ELSE IF magnitude <= 80 THEN "Strong"
    ELSE "Major"

getMagnitudeDescription(magnitude) ==
    IF magnitude < 20 THEN "Minor"
    ELSE IF magnitude < 40 THEN "Light"
    ELSE IF magnitude < 60 THEN "Moderate"
    ELSE IF magnitude < 80 THEN "Strong"
    ELSE "Major"

\* The colour a hex code is, as the comments of getMagnitudeColor name it.
ColourName(hex) ==
    CASE hex = "#1976D2" -> "Blue"
      [] hex = "#43A047" -> "Green"
      [] hex = "#FFC107" -> "Yellow"
      [] hex = "#FF9800" -> "Orange"
      [] hex = "#F44336" -> "Red"

\* The classes of the user guide: colour, name, and the magnitudes (tenths)
\* from min up to below max; Null for no bound.
DocumentedClasses ==
    <<[colour |-> "Blue", name |-> "Minor", min |-> Null, max |-> Some(20)],
      [colour |-> "Green", name |-> "Light", min |-> Some(20), max |-> Some(40)],
      [colour |-> "Yellow", name |-> "Moderate", min |-> Some(40),
       max |-> Some(60)],
      [colour |-> "Orange", name |-> "Strong", min |-> Some(60),
       max |-> Some(80)],
      [colour |-> "Red", name |-> "Major", min |-> Some(80), max |-> Null]>>

\* Magnitudes -2.0 to 12.0, every tenth.
ClassMagnitudes == -20..120

ClassInit ==
    /\ now = 0
    /\ loading = FALSE
    /\ earthquakes = Slice("", 0)
    /\ summary = Null
    /\ error = Null
    /\ progress = 0
    /\ progressSimulation = FALSE
    /\ cache = <<>>
    /\ currentCacheSize = 0
    /\ requests = {}
    /\ timers = {}
    /\ fetches = 0
    /\ toasts = <<>>
    /\ lastEvent = Other
    /\ \E magnitude \in ClassMagnitudes :
           input = Some([magnitude |-> magnitude])

\* getMagnitudeColor(magnitude) and getMagnitudeDescription(magnitude)
Classify ==
    /\ input # Null
    /\ lastEvent = Other
    /\ lastEvent' = [op |-> "classify",
                     color |-> getMagnitudeColor(input[1].magnitude),
                     description |->
                         getMagnitudeDescription(input[1].magnitude)]
    /\ UNCHANGED <<now, loading, earthquakes, summary, error, progress,
                   progressSimulation, cache, currentCacheSize, requests,
                   timers, fetches, input, toasts>>

ClassNext == Classify

ClassSpec == ClassInit /\ [][ClassNext]_vars

----------------------------------------------------------------------------
(* generateSummary on its own: a fresh service, and one call with a record *)
(* list and a filter drawn from bounded sets.                              *)

\* Magnitudes a record may carry: negative, zero, each bucket boundary's
\* two sides, and two values inside buckets.
Magnitudes == {-5, 0, 19, 20, 61, 80}

\* A record of day 0 or of day 1.
Times == {1000, MsPerDay + 1000}

\* A span of 181 days, sampled every second day (day 1 is not seeded).
FilterLong == Filters(0, 180, 0, Null, NoBox, 500, 1)

SummaryFilters == {FilterDay, FilterSpan, FilterLong}

\* Record lists of n records; the id of a record is its position.
RecordLists(n) ==
    {[i \in 1..n |-> Feature(i, m[i], t[i])] :
        m \in [1..n -> Magnitudes], t \in [1..n -> Times]}

SummaryInit ==
    /\ now = 0
    /\ loading = FALSE
    /\ earthquakes = Slice("", 0)
    /\ summary = Null
    /\ error = Null
    /\ progress = 0
    /\ progressSimulation = FALSE
    /\ cache = <<>>
    /\ currentCacheSize = 0
    /\ requests = {}
    /\ timers = {}
    /\ fetches = 0
    /\ toasts = <<>>
    /\ lastEvent = Other
    /\ \E n \in 0..MaxLen : \E eqs \in RecordLists(n) :
       \E filters \in SummaryFilters :
           input = Some([earthquakes |-> eqs, filters |-> filters])

\* generateSummary(earthquakes, filters)
GenerateSummaryCall ==
    /\ input # Null
    /\ summary = Null
    /\ summary' = Some(GenerateSummary(input[1].earthquakes, input[1].filters))
    /\ UNCHANGED <<now, loading, earthquakes, error, progress,
                   progressSimulation, cache, currentCacheSize, requests,
                   timers, fetches, input, toasts, lastEvent>>

SummaryNext == GenerateSummaryCall

SummarySpec == SummaryInit /\ [][SummaryNext]_vars

----------------------------------------------------------------------------
(* Properties of generateSummary (SummarySpec) *)

\* generateSummary has been applied to a non-empty list.
Summarised ==
    /\ input # Null
    /\ summary # Null
    /\ Len(input[1].earthquakes) > 0

Mag(eq) == eq.properties.mag

\* The positions of the records of maximum magnitude.
Maxima(eqs) ==
    {i \in DOMAIN eqs : \A j \in DOMAIN eqs : Mag(eqs[i]) >= Mag(eqs[j])}

First(positions) == CHOOSE i \in positions : \A j \in positions : i <= j
Last(positions) == CHOOSE i \in positions : \A j \in positions : i >= j

\* C9 as stated: the strongest record has a magnitude >= every record's, and
\* of several records sharing the maximum the first in input order is chosen.
C9_StrongestIsFirstMaximum ==
    Summarised =>
        LET eqs == input[1].earthquakes
            strongest == summary[1].strongestEarthquake
        IN  /\ strongest # Null
            /\ \A i \in DOMAIN eqs : Mag(strongest[1]) >= Mag(eqs[i])
            /\ strongest[1] = eqs[First(Maxima(eqs))]

\* C9 as amended: the strongest record has a magnitude >= every record's, and
\* of several records sharing the maximum the last in input order is chosen.
C9_StrongestIsLastMaximum ==
    Summarised =>
        LET eqs == input[1].earthquakes
            strongest == summary[1].strongestEarthquake
        IN  /\ strongest # Null
            /\ \A i \in DOMAIN eqs : Mag(strongest[1]) >= Mag(eqs[i])
            /\ strongest[1] = eqs[Last(Maxima(eqs))]

\* A list with several maxima has been summarised.
C9_Witness ==
    /\ Summarised
    /\ Cardinality(Maxima(input[1].earthquakes)) > 1
    /\ Cardinality(Maxima(input[1].earthquakes)) < Len(input[1].earthquakes)

RECURSIVE SumCounts(_)
SumCounts(distribution) ==
    IF distribution = <<>> THEN 0
    ELSE distribution[1].count + SumCounts(Tail(distribution))

\* C10: for every non-empty record list the counts of the five magnitude
\* buckets add up to the summary's count (each record is in exactly one).
C10_BucketsSumToCount ==
    Summarised =>
        /\ Len(summary[1].magnitudeDistribution) = 5
        /\ SumCounts(summary[1].magnitudeDistribution) = summary[1].count

\* The records of a list that fall on a calendar day.
OnDay(eqs, day) == {i \in DOMAIN eqs : DayOf(eqs[i].properties.time) = day}

\* The days the filter's span seeds with a zero count.
SeededDays(filters) ==
    {SeedDates(filters)[k].date : k \in DOMAIN SeedDates(filters)}

\* C11: for every non-empty record list and every filter date span, sampled
\* or not, the per-day counts add up to the record count; the day of every
\* record, seeded or not, has one entry, which counts the records of that day.
C11_PerDayCountsSumToCount ==
    Summarised =>
        LET eqs == input[1].earthquakes
            perDay == summary[1].frequencyPerDay
        IN  /\ SumCounts(perDay) = Len(eqs)
            /\ SumCounts(perDay) = summary[1].count
            /\ \A i \in DOMAIN eqs :
                   LET day == DayOf(eqs[i].properties.time)
                       at == {k \in DOMAIN perDay : perDay[k].date = day}
                   IN  /\ Cardinality(at) = 1
                       /\ \A k \in at :
                              perDay[k].count = Cardinality(OnDay(eqs, day))

\* A list with a record on a day the sampled span did not seed, and one on
\* a seeded day, has been summarised.
C11_Witness ==
    /\ Summarised
    /\ differenceInDays(input[1].filters.endTime, input[1].filters.startTime) > 90
    /\ \E i, j \in DOMAIN input[1].earthquakes :
           /\ DayOf(input[1].earthquakes[i].properties.time)
                  \notin SeededDays(input[1].filters)
           /\ DayOf(input[1].earthquakes[j].properties.time)
                  \in SeededDays(input[1].filters)

\* generateSummary has been applied with a filter of a single day.
SummarisedSingleDay ==
    /\ input # Null
    /\ summary # Null
    /\ input[1].filters.startTime = input[1].filters.endTime

\* The calendar days on which the records of a list fall.
DaysOf(eqs) == {DayOf(eqs[i].properties.time) : i \in DOMAIN eqs}

\* C12 as stated: for a filter with start = end the per-day series has
\* exactly one bucket, for every record list.
C12_SingleDayOneBucket ==
    SummarisedSingleDay => Len(summary[1].frequencyPerDay) = 1

\* C12 as amended: for a filter with start = end the series of the empty
\* list is empty; the series of a non-empty list starts with the bucket of
\* the filter's day and has one more bucket for every other day on which a
\* record falls, so it has exactly one bucket when every record falls on the
\* filter's day.
C12_SingleDayBuckets ==
    SummarisedSingleDay =>
        LET eqs == input[1].earthquakes
            day == input[1].filters.startTime
            perDay == summary[1].frequencyPerDay
        IN  IF Len(eqs) = 0 THEN perDay = <<>>
            ELSE /\ Len(perDay) = Cardinality(DaysOf(eqs) \cup {day})
                 /\ perDay[1] = [date |-> day,
                                 count |-> Cardinality(OnDay(eqs, day))]
                 /\ DaysOf(eqs) = {day} =>
                        perDay = <<[date |-> day, count |-> Len(eqs)]>>

\* Several records, all of the filter's day, have been summarised.
C12_Witness ==
    /\ SummarisedSingleDay
    /\ Len(input[1].earthquakes) > 1
    /\ DaysOf(input[1].earthquakes) = {input[1].filters.startTime}
    /\ Len(summary[1].frequencyPerDay) = 1

----------------------------------------------------------------------------
(* Properties of the service (Spec) *)

\* C1: at most one HTTP request is outstanding, and after a call of fetch the
\* only request that can be outstanding is the one that call issued.
C1_AtMostOneOutstanding ==
    /\ Cardinality(LiveRequests) <= 1
    /\ lastEvent.op = "fetch" =>
           LiveRequests \subseteq {Request(lastEvent.filters[1], TRUE)}

\* fetch was called while a request was in flight, and issued a request.
C1_Witness ==
    /\ lastEvent.op = "fetch"
    /\ lastEvent.live
    /\ Cardinality(LiveRequests) = 1
    /\ \E r \in requests : ~r.live

\* C2: the response to a cancelled request changes neither the records, nor
\* the summary, nor the cache.
C2_LateResponseDiscarded ==
    [][(lastEvent'.op = "response" /\ ~lastEvent'.live) =>
           UNCHANGED <<earthquakes, summary, cache, currentCacheSize, timers>>]_vars

\* The response to a cancelled request has arrived, after other data had been
\* published.
C2_Witness ==
    /\ lastEvent.op = "response"
    /\ ~lastEvent.live
    /\ summary # Null
    /\ earthquakes.response # lastEvent.data[1]

\* The entry the cache held for the filter of the last operation, before it.
HadEntry == \E k \in DOMAIN lastEvent.preCache :
                lastEvent.preCache[k].key = createCacheKey(lastEvent.filters[1])

PreEntry == CacheGet(lastEvent.preCache, createCacheKey(lastEvent.filters[1]))

WholeOf(response) == Slice(response, NumFeatures(response))

\* C3: a fetch that finds a live entry for its key issues no request,
\* publishes the records and the summary of the stored response, and ends
\* with progress 100 and loading false.
C3_CacheHit ==
    (/\ lastEvent.op = "fetch"
     /\ HadEntry
     /\ now - PreEntry.timestamp <= CACHE_DURATION) =>
        LET key == createCacheKey(lastEvent.filters[1])
        IN  /\ LiveRequests = {}
            /\ CacheHas(cache, key)
            /\ earthquakes = WholeOf(CacheGet(cache, key).data)
            /\ summary = Some(GenerateSummary(
                                ResponseData(CacheGet(cache, key).data).features,
                                lastEvent.filters[1]))
            /\ progress = 100
            /\ ~loading

\* A fetch was served from the cache while a request for another filter was
\* in flight.
C3_Witness ==
    /\ lastEvent.op = "fetch"
    /\ HadEntry
    /\ lastEvent.got # Null
    /\ lastEvent.live

\* C4 as stated: get returns the stored response only if now - insertedAt is
\* less than the TTL; at an age of the TTL or more it evicts the entry and
\* reports a miss.
C4_GetStrictlyBelowTTL ==
    (lastEvent.op = "fetch" /\ HadEntry) =>
        LET key == createCacheKey(lastEvent.filters[1])
            age == now - PreEntry.timestamp
        IN  /\ lastEvent.got # Null => age < CACHE_DURATION
            /\ age >= CACHE_DURATION =>
                   lastEvent.got = Null /\ ~CacheHas(cache, key)

\* C4 as amended: get returns the stored response if and only if
\* now - insertedAt is at most the TTL; at a greater age it evicts the entry
\* and reports a miss.
C4_GetUpToTTL ==
    (lastEvent.op = "fetch" /\ HadEntry) =>
        LET key == createCacheKey(lastEvent.filters[1])
            age == now - PreEntry.timestamp
        IN  /\ age <= CACHE_DURATION =>
                   /\ CacheHas(cache, key)
                   /\ lastEvent.got = Some(CacheGet(cache, key).data)
            /\ age > CACHE_DURATION =>
                   lastEvent.got = Null /\ ~CacheHas(cache, key)

\* get was applied to an entry whose age is exactly the TTL.
C4_Witness ==
    /\ lastEvent.op = "fetch"
    /\ HadEntry
    /\ now - PreEntry.timestamp = CACHE_DURATION
    /\ lastEvent.got # Null

\* C5: once more than the TTL has passed since an entry was stored, get
\* reports a miss, the entry is removed from the map and its size is
\* subtracted from the tracked usage, and the fetch issues a request.
C5_ExpiredEntryRemoved ==
    (/\ lastEvent.op = "fetch"
     /\ HadEntry
     /\ now - PreEntry.timestamp > CACHE_DURATION) =>
        /\ lastEvent.got = Null
        /\ ~CacheHas(cache, createCacheKey(lastEvent.filters[1]))
        /\ Len(cache) = Len(lastEvent.preCache) - 1
        /\ currentCacheSize = lastEvent.preSize - PreEntry.size
        /\ Request(lastEvent.filters[1], TRUE) \in requests
        /\ loading

\* A fetch found an expired entry, beside an entry of another key.
C5_Witness ==
    /\ lastEvent.op = "fetch"
    /\ HadEntry
    /\ now - PreEntry.timestamp > CACHE_DURATION
    /\ Len(lastEvent.preCache) > 1

\* A response has been handled by the subscriber: addToCache (put), then
\* the publication.
Put == lastEvent.op = "response" /\ lastEvent.live

PutKey == createCacheKey(lastEvent.filters[1])
PutSize == estimateObjectSize(lastEvent.data[1])

\* The entries of the cache before the put that were expired at the put.
ExpiredBefore ==
    SelectSeq(lastEvent.preCache,
              LAMBDA e : now - e.timestamp > CACHE_DURATION)

FreshBefore ==
    SelectSeq(lastEvent.preCache,
              LAMBDA e : ~(now - e.timestamp > CACHE_DURATION))

\* The usage left once the expired entries are purged.
UsageAfterPurge == lastEvent.preSize - SumSizes(ExpiredBefore)

\* get(key) right after the put
GetAfterPut == getFromCache(cache, currentCacheSize, PutKey, now).data

C7_PutEvictsOldest ==
    (Put /\ lastEvent.preSize + PutSize > MAX_CACHE_SIZE) =>
        /\ \A k \in DOMAIN ExpiredBefore : ~CacheHas(cache, ExpiredBefore[k].key)
        /\ (UsageAfterPurge + PutSize > MAX_CACHE_SIZE /\ FreshBefore # <<>>) =>
               LET oldest == SortByTimestamp(FreshBefore)[1]
                   kept == SelectSeq(FreshBefore,
                                     LAMBDA e : CacheHas(cache, e.key)
                                                /\ e.key # PutKey)
               IN  /\ ~CacheHas(cache, oldest.key)
                   /\ SumSizes(kept) <= (MAX_CACHE_SIZE * 8) \div 10

\* C8: a response estimated larger than the whole budget is not stored, and
\* the fetch still publishes its records and summary, with no error.
C8_TooLargeToCache ==
    (Put /\ PutSize > MAX_CACHE_SIZE) =>
        /\ ~CacheHas(cache, PutKey)
        /\ \A k \in DOMAIN cache : cache[k].data # lastEvent.data[1]
        /\ error = Null
        /\ earthquakes = FirstFeatures(lastEvent.data[1])
        /\ summary = Some(GenerateSummary(Features(earthquakes),
                                          lastEvent.filters[1]))
        /\ ~loading

\* A response larger than the budget has been handled.
C8_Witness ==
    /\ Put
    /\ PutSize > MAX_CACHE_SIZE
    /\ Len(Features(earthquakes)) > 0

\* A fetch has succeeded: the subscriber has handled the response of the
\* live request, or the fetch has found the response in the cache.
Succeeded ==
    \/ Put
    \/ lastEvent.op = "fetch" /\ lastEvent.got # Null

SucceededWith == IF Put THEN lastEvent.data[1] ELSE lastEvent.got[1]

\* C13: a successful fetch that returns zero records publishes an empty
\* record list and a summary with count 0, average magnitude 0, no strongest
\* record and empty series; the error channel is null and loading is false.
C13_EmptyResultIsNoError ==
    (Succeeded /\ NumFeatures(SucceededWith) = 0) =>
        /\ Features(earthquakes) = <<>>
        /\ summary # Null
        /\ summary[1].count = 0
        /\ summary[1].averageMagnitude.num = 0
        /\ summary[1].averageMagnitude.den = 1
        /\ summary[1].strongestEarthquake = Null
        /\ summary[1].frequencyPerDay = <<>>
        /\ summary[1].magnitudeDistribution = <<>>
        /\ error = Null
        /\ ~loading

\* The live request has been answered by a response without records.
C13_Witness ==
    /\ Put
    /\ NumFeatures(lastEvent.data[1]) = 0
    /\ earthquakes = Slice(lastEvent.data[1], 0)
    /\ CacheHas(cache, PutKey)

\* The live request has failed: catchError and finalize have run.
Failed == lastEvent.op \in ErrorNames /\ lastEvent.live

\* C14: when the request of a fetch fails (network error or timeout) the
\* service publishes an error message, clears loading and sends no request
\* of its own; a request is sent only by a fetch that misses the cache, and
\* that fetch sends exactly one.
C14_FailureReportedNoRetry ==
    [][/\ (lastEvent'.op \in ErrorNames /\ lastEvent'.live) =>
              /\ error' # Null
              /\ error' = Some(ERROR_MESSAGE)
              /\ ~loading'
              /\ LiveRequests' = {}
              /\ requests' \subseteq (requests \cup CancelSubjectNext(requests))
              /\ Request(lastEvent'.filters[1], TRUE) \notin requests'
       /\ IF lastEvent'.op = "fetch" /\ lastEvent'.got = Null
          THEN LiveRequests' = {Request(lastEvent'.filters[1], TRUE)}
          ELSE LiveRequests' \subseteq LiveRequests]_vars

\* The request of a fetch has failed after an earlier fetch had succeeded.
C14_Witness ==
    /\ Failed
    /\ error # Null
    /\ ~loading
    /\ summary # Null

\* What the user is shown of a failure: the message of the error channel
\* and the toasts.
ShowsTimeout ==
    \E k \in DOMAIN toasts :
        /\ toasts[k].type = "error"
        /\ toasts[k].message =
               <<"Request timed out. Try reducing the date range or adding more filters.">>

\* C15: the error state shown after a failed fetch tells a timeout from any
\* other failure: an error is published in both cases, and the timeout
\* notice is shown after a timeout and only after a timeout.
C15_TimeoutDistinguished ==
    Failed =>
        /\ error # Null
        /\ Len(toasts) = 1
        /\ toasts[1].type = "error"
        /\ ShowsTimeout <=> lastEvent.op = "TimeoutError"

\* A request has timed out.
C15_Witness ==
    /\ Failed
    /\ lastEvent.op = "TimeoutError"
    /\ ShowsTimeout

\* processNextBatch has run for a timer of the batch processing.
Batch == lastEvent.op = "batch"

BatchLength == NumFeatures(lastEvent.data[1])

\* The lengths processResponseInBatches and processBatchesSequentially
\* publish for n records: the first 100, then the end of every batch of 500.
BatchSteps(n) ==
    <<INITIAL_BATCH>> \o
    [k \in 1..Ceil(n, BATCH_SIZE) |->
        IF k * BATCH_SIZE < n THEN k * BATCH_SIZE ELSE n]

\* C17 as stated: a result set above the threshold of 500 records is
\* published in exactly two steps, the first 100 records and then the full
\* set; a result set not above the threshold is published in one step.
C17_TwoStepsAboveThreshold ==
    /\ (Put /\ NumFeatures(lastEvent.data[1]) <= BATCH_SIZE) =>
           earthquakes = WholeOf(lastEvent.data[1])
    /\ (Batch /\ lastEvent.done) =>
           /\ BatchLength > BATCH_SIZE
           /\ lastEvent.published = <<INITIAL_BATCH, BatchLength>>

\* C17 as amended: a result set of fewer than 500 records is published in
\* one step; a result set of 500 records or more is published first as its
\* first 100 records and then once per batch of 500, each time with the
\* records up to the end of the batch, the last time in full: two steps for
\* 500 records, three for 501.
C17_OneStepPerBatch ==
    /\ (Put /\ NumFeatures(lastEvent.data[1]) < BATCH_SIZE) =>
           /\ earthquakes = WholeOf(lastEvent.data[1])
           /\ \A t \in timers : t.response # lastEvent.data[1]
    /\ (Put /\ NumFeatures(lastEvent.data[1]) >= BATCH_SIZE) =>
           /\ earthquakes = Slice(lastEvent.data[1], INITIAL_BATCH)
           /\ \E alone \in BOOLEAN :
                  Timer(lastEvent.data[1], lastEvent.filters[1], 0, fetches,
                        alone, <<INITIAL_BATCH>>) \in timers
    /\ (Batch /\ ~lastEvent.done) =>
           /\ earthquakes =
                  Slice(lastEvent.data[1],
                        lastEvent.published[Len(lastEvent.published)])
           /\ lastEvent.published =
                  SubSeq(BatchSteps(BatchLength), 1, Len(lastEvent.published))
    /\ (Batch /\ lastEvent.done) =>
           /\ BatchLength >= BATCH_SIZE
           /\ lastEvent.published = BatchSteps(BatchLength)
           /\ Len(lastEvent.published) = 1 + Ceil(BatchLength, BATCH_SIZE)
           /\ lastEvent.published[Len(lastEvent.published)] = BatchLength

\* The batches of a result set of more than 500 records have all been
\* processed.
C17_Witness ==
    /\ Batch
    /\ lastEvent.done
    /\ BatchLength > BATCH_SIZE
    /\ Len(lastEvent.published) = 3

\* The summary a one-step publication of the whole response computes (as a
\* cache hit for the same filter does).
FullSummary ==
    Some(Summarize(WholeOf(lastEvent.data[1]), lastEvent.filters[1]))

\* The batch processing of the last event's response was not interrupted by
\* another fetch: none was being processed when it began, and fetch has not
\* been called since.
Uninterrupted == lastEvent.alone /\ lastEvent.fetch = fetches

\* C18: when the last batch of a large result set is processed, the records
\* published are the full set and the summary is the summary of the full
\* set, the one a one-step publication computes; they are still published
\* when the processing ends, if no other fetch interrupted it.
C18_BatchesConverge ==
    /\ (Batch /\ ~lastEvent.done
           /\ lastEvent.published[Len(lastEvent.published)] = BatchLength) =>
           /\ earthquakes = WholeOf(lastEvent.data[1])
           /\ summary = FullSummary
    /\ (Batch /\ lastEvent.done /\ Uninterrupted) =>
           /\ earthquakes = WholeOf(lastEvent.data[1])
           /\ summary = FullSummary
           /\ summary[1].count = BatchLength

\* The uninterrupted processing of a result set of more than 500 records
\* has ended.
C18_Witness ==
    /\ Batch
    /\ lastEvent.done
    /\ Uninterrupted
    /\ BatchLength > BATCH_SIZE
    /\ earthquakes.length = BatchLength

\* The operation an event records has updated the records channel: the
\* subscriber has handled a response, a fetch has hit the cache, or a batch
\* has been processed.
Updated(e) ==
    \/ e.op = "response" /\ e.live
    \/ e.op = "fetch" /\ e.got # Null
    \/ e.op = "batch" /\ ~e.done

\* C19: after every update of the records channel the published summary's
\* count is the number of records published.
C19_SummaryCountIsRecordCount ==
    Updated(lastEvent) =>
        /\ summary # Null
        /\ summary[1].count = Len(Features(earthquakes))

----------------------------------------------------------------------------
(* Properties of the service with malformed responses (MalformedSpec) *)

\* The subscriber has been handed a response without a feature list.
GotMalformed ==
    /\ lastEvent.op = "response"
    /\ lastEvent.live
    /\ ~HasFeatures(lastEvent.data[1])

\* C16: a response without a feature list is treated as a fetch failure: the
\* error message is published with an error notice, loading is cleared, and
\* the response is not kept as the result of the fetch.
C16_MalformedIsFailure ==
    GotMalformed =>
        /\ error # Null
        /\ \E k \in DOMAIN toasts : toasts[k].type = "error"
        /\ ~loading
        /\ ~CacheHas(cache, createCacheKey(lastEvent.filters[1]))

----------------------------------------------------------------------------
(* Properties of the request a fetch sends (ParamsSpec) *)

\* Whether the parameters hold one of a given name; its value.
HasParam(params, name) == \E k \in DOMAIN params : params[k][1] = name

ParamValue(params, name) ==
    params[CHOOSE k \in DOMAIN params : params[k][1] = name][2]

BoxParams == {"minlatitude", "maxlatitude", "minlongitude", "maxlongitude"}

\* The coordinates a filter gives (absent ones left out).
GivenCoordinates(filters) ==
    {c \in {filters.minLatitude, filters.maxLatitude,
            filters.minLongitude, filters.maxLongitude} : c # Null}

\* C20: every outgoing request carries either all four bounding-box
\* parameters or none of them, and an offset parameter of at least 1,
\* whatever the offset of the filter.
C20_BoxAllOrNoneOffsetAtLeastOne ==
    \A r \in requests :
        /\ \/ \A name \in BoxParams : HasParam(r.params, name)
           \/ \A name \in BoxParams : ~HasParam(r.params, name)
        /\ Cardinality({k \in DOMAIN r.params : r.params[k][1] = "offset"}) = 1
        /\ ParamValue(r.params, "offset") >= 1
        /\ r.filters.offset >= 1 =>
               ParamValue(r.params, "offset") = r.filters.offset

\* A request has been sent for a filter that gives some of the four
\* coordinates and not all, and an offset of 0.
C20_Witness ==
    \E r \in requests :
        /\ r.live
        /\ GivenCoordinates(r.filters) # {}
        /\ \E c \in {r.filters.minLatitude, r.filters.maxLatitude,
                      r.filters.minLongitude, r.filters.maxLongitude} : c = Null
        /\ r.filters.offset = 0
        /\ \A name \in BoxParams : ~HasParam(r.params, name)

\* C21: maxmagnitude is sent for every filter that has a maximum magnitude,
\* and the four bounding-box parameters are sent for every filter that has
\* all four bounds, whatever their values (0 included).
C21_OptionalFieldsTranslated ==
    \A r \in requests :
        /\ r.filters.maxMagnitude # Null =>
               /\ HasParam(r.params, "maxmagnitude")
               /\ ParamValue(r.params, "maxmagnitude") = r.filters.maxMagnitude[1]
        /\ (/\ r.filters.minLatitude # Null
            /\ r.filters.maxLatitude # Null
            /\ r.filters.minLongitude # Null
            /\ r.filters.maxLongitude # Null) =>
               \A name \in BoxParams : HasParam(r.params, name)


\* C22: every filter the filter form dispatches to fetch has start <= end,
\* min magnitude <= max magnitude when a max is present, a bounding box that
\* is all-present or all-absent, and 1 <= limit <= 500.
C22_DispatchedFiltersValid ==
    \A r \in requests :
        /\ r.filters.startTime <= r.filters.endTime
        /\ r.filters.maxMagnitude # Null =>
               r.filters.minMagnitude <= r.filters.maxMagnitude[1]
        /\ \/ GivenCoordinates(r.filters) = {}
           \/ Null \notin {r.filters.minLatitude, r.filters.maxLatitude,
                            r.filters.minLongitude, r.filters.maxLongitude}
        /\ r.filters.limit >= 1
        /\ r.filters.limit <= 500


----------------------------------------------------------------------------
(* Properties of the service, continued (Spec) *)

\* The entries of a cache, as a set.
Entries(c) == {c[k] : k \in DOMAIN c}

\* C23: every step that creates a cache entry is the arrival of the response
\* to the request in flight, which a fetch that missed the cache issued; the
\* entry holds that response under the key of that fetch.  A failure, a
\* timeout, a cancellation, the response to a cancelled request and a fetch
\* served from the cache create none.
C23_EntryOnlyFromLiveResponse ==
    [][\A entry \in Entries(cache') \ Entries(cache) :
           /\ lastEvent'.op = "response"
           /\ lastEvent'.live
           /\ Request(lastEvent'.filters[1], TRUE) \in requests
           /\ Request(lastEvent'.filters[1], TRUE) \notin requests'
           /\ entry.key = createCacheKey(lastEvent'.filters[1])
           /\ entry.data = lastEvent'.data[1]
           /\ entry.timestamp = now
           /\ ~CacheHas(cache, entry.key)]_vars

\* A response was stored beside an older entry, after time enough for a
\* fetch to have been served from the cache.
C23_Witness ==
    /\ Put
    /\ CacheHas(cache, PutKey)
    /\ ~HadEntry
    /\ Len(cache) = 2
    /\ now > 0


----------------------------------------------------------------------------
(* Properties of the progress channel (ProgressSpec) *)

\* C24: every value on the progress channel lies in 0..100, and each value
\* the progress simulation publishes while the request is in flight is at
\* least the value before it and at most 94.
C24_ProgressBounded ==
    /\ progress \in 0..100
    /\ [][/\ progress' \in 0..100
          /\ lastEvent'.op = "interval" =>
                 /\ LiveRequests # {}
                 /\ progress' >= progress
                 /\ progress' <= 94]_vars

\* The simulation has published its last value, 120 s after the fetch.
C24_Witness ==
    /\ lastEvent.op = "interval"
    /\ now - input[1].startTime >= TIMEOUT
    /\ progress = 94
    /\ LiveRequests # {}


----------------------------------------------------------------------------
(* Properties of the magnitude classification (ClassSpec) *)

\* The documented classes a magnitude lies in.
ClassesOf(magnitude) ==
    {c \in DOMAIN DocumentedClasses :
        /\ DocumentedClasses[c].min # Null =>
               magnitude >= DocumentedClasses[c].min[1]
        /\ DocumentedClasses[c].max # Null =>
               magnitude < DocumentedClasses[c].max[1]}

\* The buckets of the histogram that count a record of a magnitude.
BucketsOf(magnitude) ==
    {r \in DOMAIN magnitudeRanges :
        InRange(magnitudeRanges[r], Feature(1, magnitude, 0))}

----------------------------------------------------------------------------
(* Properties of the service, continued (Spec) *)

\* C26: the tracked usage is the sum of the sizes of the entries in the
\* map, it is not negative and not above the budget, and the map holds no
\* two entries of one key; no step stores an entry for a key that has one.
C26_UsageIsSumOfSizes ==
    /\ [](/\ currentCacheSize = SumSizes(cache)
          /\ currentCacheSize >= 0
          /\ currentCacheSize <= MAX_CACHE_SIZE
          /\ \A j, k \in DOMAIN cache : cache[j].key = cache[k].key => j = k)
    /\ [][\A entry \in Entries(cache') \ Entries(cache) :
              ~CacheHas(cache, entry.key)]_vars


\* The cache holds two entries that fill the budget exactly, the second one
\* stored after the first had aged.
C26_Witness ==
    /\ Len(cache) = 2
    /\ currentCacheSize = MAX_CACHE_SIZE
    /\ cache[1].timestamp < cache[2].timestamp


\* C27: a batch of records (and the summary with the last batch) is only
\* published for the response to the latest call of fetch: once fetch has
\* been called again, nothing derived from an earlier response is published.
C27_NoStalePublication ==
    (Batch /\ ~lastEvent.done) => lastEvent.fetch = fetches


\* C28: between the moment loading is false and the next call of fetch, no
\* step changes the records, the summary or the progress.
C28_QuietAfterLoading ==
    [][(~loading /\ fetches' = fetches) =>
           UNCHANGED <<earthquakes, summary, progress>>]_vars


\* C30: the step in which the request in flight fails or times out leaves
\* the progress at 0 and does not change the records and the summary.
C30_FailureResetsProgress ==
    [][(lastEvent'.op \in ErrorNames /\ lastEvent'.live) =>
           /\ progress' = 0
           /\ UNCHANGED <<earthquakes, summary>>]_vars


----------------------------------------------------------------------------
(* Termination of a fetch (MalformedFairSpec) *)

\* C29: whenever loading is true it is false again later, every network
\* call ending, whether the fetch is served from the network or from a
\* payload the cache holds.
C29_LoadingEnds == loading ~> ~loading

============================================================================
